---- MODULE Spec2Model ----
(***************************************************************************)
(* Model of api/research.js: the /api/research request handler and its     *)
(* helpers.  JavaScript values are modelled as tagged records, strings as  *)
(* sequences of one-character strings, and numbers as integers counted in  *)
(* units of 1/Unit so that 0.5, 0.78 or 38.7 are exact.  The text of the   *)
(* prompt (interests, ask, count) and meta.generated_at do not influence   *)
(* the control flow and are left out; calls and their replies are kept in  *)
(* a log, which the code does not have, so that properties can refer to    *)
(* what was asked and answered.                                            *)
(***************************************************************************)
EXTENDS Integers, Sequences, FiniteSets

(* ------------------------------------------------------------------ *)
(* Bounds of the model                                                  *)
(* ------------------------------------------------------------------ *)

\* longest input string drawn for the helper specification
MaxStrLen == 3
\* longest place list drawn for dedupePlaces in the helper specification
MaxDedupeLen == 3
\* longest candidate list of distinct kinds the language model returns
MaxMixedLen == 2
\* how many candidates beyond the smallest max_places a long reply carries
MaxExtra == 1

(* ------------------------------------------------------------------ *)
(* JavaScript values                                                    *)
(* ------------------------------------------------------------------ *)

\* TLC keeps the fields of a record in the order in which it first met their
\* names; the names are met here, and every record below lists its fields in
\* this order
FieldOrder ==
  [t |-> 0, b |-> 0, n |-> 0, sign |-> 0, s |-> 0, a |-> 0, places |-> 0, id |-> 0,
   name |-> 0, category |-> 0, lat |-> 0, lng |-> 0, highlights |-> 0, why_go |-> 0,
   time_needed_hours |-> 0, best_time_of_day |-> 0, tags |-> 0, confidence |-> 0,
   center |-> 0, relevance |-> 0, place_type |-> 0, status |-> 0, valid |-> 0,
   value |-> 0, features |-> 0, destination_query |-> 0, ask |-> 0, max_places |-> 0,
   trip |-> 0, options |-> 0, method |-> 0, kind |-> 0, text |-> 0, body |-> 0,
   OPENAI_API_KEY |-> 0, MAPBOX_TOKEN |-> 0, destination |-> 0, query |-> 0,
   bbox |-> 0, meta |-> 0, geocode_provider |-> 0, cache_hit |-> 0, at |-> 0,
   outcome |-> 0, got |-> 0, threw |-> 0, fn |-> 0, arg |-> 0, lim |-> 0, outs |-> 0]

\* numbers are integers in units of 1/Unit
Unit == 100 * 100

Undef == [t |-> "undefined"]
Null == [t |-> "null"]
NaN == [t |-> "nan"]
Obj == [t |-> "object"]
Bool(b) == [t |-> "boolean", b |-> b]
Num(h) == [t |-> "number", n |-> h]
Inf(sg) == [t |-> "infinity", sign |-> sg]
Str(s) == [t |-> "string", s |-> s]
Arr(a) == [t |-> "array", a |-> a]

\* Number.isFinite(v)
IsFinite(v) == v.t = "number"

\* Array.isArray(v)
IsArray(v) == v.t = "array"

\* the truthiness test behind `v || x`, `!v` and `if (v)`
Truthy(v) ==
  CASE v.t = "undefined" -> FALSE
    [] v.t = "null" -> FALSE
    [] v.t = "nan" -> FALSE
    [] v.t = "boolean" -> v.b
    [] v.t = "number" -> v.n # 0
    [] v.t = "string" -> v.s # <<>>
    [] OTHER -> TRUE

\* v || w
OrElse(v, w) == IF Truthy(v) THEN v ELSE w

(* ------------------------------------------------------------------ *)
(* Strings                                                              *)
(* ------------------------------------------------------------------ *)

UpperLetters == <<"A","B","C","D","E","F","G","H","I","J","K","L","M",
                  "N","O","P","Q","R","S","T","U","V","W","X","Y","Z">>
LowerLetters == <<"a","b","c","d","e","f","g","h","i","j","k","l","m",
                  "n","o","p","q","r","s","t","u","v","w","x","y","z">>
Digits == <<"0","1","2","3","4","5","6","7","8","9">>

Range(f) == {f[i] : i \in DOMAIN f}

IsSpace(c) == c \in {" ", "\t", "\n", "\r"}
IsDigit(c) == c \in Range(Digits)
\* the character class [a-z0-9]
IsSlugChar(c) == c \in Range(LowerLetters) \cup Range(Digits)

ToLowerChar(c) ==
  IF \E i \in DOMAIN UpperLetters : UpperLetters[i] = c
  THEN LowerLetters[CHOOSE i \in DOMAIN UpperLetters : UpperLetters[i] = c]
  ELSE c

\* String.prototype.toLowerCase
ToLowerCase(s) == [i \in 1..Len(s) |-> ToLowerChar(s[i])]

\* String.prototype.trim
Trim(s) ==
  LET keep == {i \in 1..Len(s) : ~IsSpace(s[i])}
  IN IF keep = {} THEN <<>>
     ELSE SubSeq(s, CHOOSE i \in keep : \A j \in keep : i <= j,
                    CHOOSE i \in keep : \A j \in keep : i >= j)

\* String.prototype.slice(0, e), a negative e counting from the end
Slice0(s, e) ==
  LET stop == IF e < 0 THEN (IF Len(s) + e < 0 THEN 0 ELSE Len(s) + e)
              ELSE (IF e > Len(s) THEN Len(s) ELSE e)
  IN SubSeq(s, 1, stop)

DigitValue(c) == (CHOOSE i \in DOMAIN Digits : Digits[i] = c) - 1

RECURSIVE NatToString(_)
NatToString(n) ==
  IF n < 10 THEN <<Digits[n + 1]>>
  ELSE NatToString(n \div 10) \o <<Digits[(n % 10) + 1]>>

RECURSIVE DigitsToNat(_)
DigitsToNat(s) ==
  IF s = <<>> THEN 0
  ELSE 10 * DigitsToNat(SubSeq(s, 1, Len(s) - 1)) + DigitValue(s[Len(s)])

\* the four fraction digits of f/Unit, trailing zeros removed
FractionToString(f) ==
  LET four == <<Digits[(f \div 1000) + 1], Digits[((f \div 100) % 10) + 1],
                Digits[((f \div 10) % 10) + 1], Digits[(f % 10) + 1]>>
      last == CHOOSE i \in 1..4 : four[i] # "0" /\ \A j \in (i+1)..4 : four[j] = "0"
  IN SubSeq(four, 1, last)

\* Number.prototype.toString for a finite number
NumToString(h) ==
  LET a == IF h < 0 THEN 0 - h ELSE h
      whole == NatToString(a \div Unit)
      frac == a % Unit
  IN (IF h < 0 THEN <<"-">> ELSE <<>>) \o whole
       \o (IF frac = 0 THEN <<>> ELSE <<".">> \o FractionToString(frac))

RECURSIVE Join(_)
RECURSIVE JsString(_)
\* String(v)
JsString(v) ==
  CASE v.t = "undefined" -> <<"u","n","d","e","f","i","n","e","d">>
    [] v.t = "null" -> <<"n","u","l","l">>
    [] v.t = "nan" -> <<"N","a","N">>
    [] v.t = "boolean" -> IF v.b THEN <<"t","r","u","e">> ELSE <<"f","a","l","s","e">>
    [] v.t = "number" -> NumToString(v.n)
    [] v.t = "infinity" -> (IF v.sign < 0 THEN <<"-">> ELSE <<>>)
                             \o <<"I","n","f","i","n","i","t","y">>
    [] v.t = "string" -> v.s
    [] v.t = "array" -> Join(v.a)
    [] OTHER -> <<"[","o","b","j","e","c","t"," ","O","b","j","e","c","t","]">>

\* Array.prototype.join(","): null and undefined elements print as ""
Join(a) ==
  IF a = <<>> THEN <<>>
  ELSE LET one == IF a[1].t \in {"undefined", "null"} THEN <<>> ELSE JsString(a[1])
       IN IF Len(a) = 1 THEN one ELSE one \o <<",">> \o Join(Tail(a))

\* the longest prefix of s made of digits
RECURSIVE DigitPrefix(_)
DigitPrefix(s) ==
  IF s = <<>> \/ ~IsDigit(s[1]) THEN <<>> ELSE <<s[1]>> \o DigitPrefix(Tail(s))

\* leading whitespace removed
RECURSIVE SkipSpace(_)
SkipSpace(s) == IF s # <<>> /\ IsSpace(s[1]) THEN SkipSpace(Tail(s)) ELSE s

\* parseInt(v, 10)
ParseInt(v) ==
  LET s == SkipSpace(JsString(v))
      signed == s # <<>> /\ s[1] \in {"+", "-"}
      body == IF signed THEN Tail(s) ELSE s
      ds == DigitPrefix(body)
  IN IF ds = <<>> THEN NaN
     ELSE Num((IF signed /\ s[1] = "-" THEN 0 - 1 ELSE 1) * DigitsToNat(ds) * Unit)

\* the decimal literal grammar of Number(string): digits [. digits] or . digits
DecimalValue(s) ==
  LET whole == DigitPrefix(s)
      rest == SubSeq(s, Len(whole) + 1, Len(s))
      fracd == IF rest # <<>> /\ rest[1] = "." THEN DigitPrefix(Tail(rest)) ELSE <<>>
      used == Len(whole) + (IF rest # <<>> /\ rest[1] = "." THEN 1 + Len(fracd) ELSE 0)
      padded == SubSeq(fracd \o <<"0","0","0","0">>, 1, 4)
  IN IF used # Len(s) \/ (whole = <<>> /\ fracd = <<>>) THEN NaN
     ELSE Num(DigitsToNat(whole) * Unit + DigitsToNat(padded))

\* Number(s) for a string s
StringToNumber(s0) ==
  LET s == Trim(s0)
      signed == s # <<>> /\ s[1] \in {"+", "-"}
      body == IF signed THEN Tail(s) ELSE s
      val == DecimalValue(body)
  IN IF s = <<>> THEN Num(0)
     ELSE IF val.t = "nan" THEN NaN
     ELSE IF signed /\ s[1] = "-" THEN Num(0 - val.n) ELSE val

\* Number(v)
ToNumber(v) ==
  CASE v.t = "undefined" -> NaN
    [] v.t = "null" -> Num(0)
    [] v.t = "boolean" -> IF v.b THEN Num(Unit) ELSE Num(0)
    [] v.t = "string" -> StringToNumber(v.s)
    [] v.t = "array" -> StringToNumber(Join(v.a))
    [] v.t = "object" -> NaN
    [] OTHER -> v

(* ------------------------------------------------------------------ *)
(* Helpers of research.js                                               *)
(* ------------------------------------------------------------------ *)

Min2(a, b) == IF a < b THEN a ELSE b
Max2(a, b) == IF a > b THEN a ELSE b

\* clamp(n, min, max) on finite numbers
clamp(n, min, max) == Max2(min, Min2(max, n))

\* clampInt without its lower bound
clampIntNoFloor(v, min, max, fallback) ==
  LET n == ParseInt(v)
  IN IF ~IsFinite(n) THEN fallback ELSE Min2(max, n.n \div Unit)

\* clampInt(v, min, max, fallback); min, max, fallback and the result are integers
clampInt(v, min, max, fallback) ==
  LET n == ParseInt(v)
  IN IF ~IsFinite(n) THEN fallback
     ELSE Max2(min, Min2(max, n.n \div Unit))

\* the bounds and default of max_places
MinPlaces == 5
MaxPlaces == 25
DefaultPlaces == 15

CategoryAllowed == <<<<"s","i","g","h","t">>,
                     <<"m","u","s","e","u","m">>,
                     <<"n","e","i","g","h","b","o","r","h","o","o","d">>,
                     <<"f","o","o","d">>,
                     <<"v","i","e","w","p","o","i","n","t">>,
                     <<"d","a","y","_","t","r","i","p">>,
                     <<"n","a","t","u","r","e">>,
                     <<"a","c","t","i","v","i","t","y">>>>
CategoryFallback == <<"s","i","g","h","t">>
TimeOfDayAllowed == <<<<"m","o","r","n","i","n","g">>,
                      <<"a","f","t","e","r","n","o","o","n">>,
                      <<"e","v","e","n","i","n","g">>,
                      <<"l","a","t","e","_","a","f","t","e","r","n","o","o","n">>,
                      <<"n","i","g","h","t">>>>
TimeOfDayFallback == <<"a","f","t","e","r","n","o","o","n">>

\* safeEnum(v, allowed, fallback), a string
safeEnum(v, allowed, fallback) ==
  LET s == Trim(JsString(OrElse(v, Str(<<>>))))
  IN IF s \in Range(allowed) THEN s ELSE fallback

\* safeCategory(v), a string
safeCategory(v) ==
  LET s == Trim(JsString(OrElse(v, Str(<<>>))))
  IN IF s \in Range(CategoryAllowed) THEN s ELSE CategoryFallback

\* safeString(v, maxLen), a string
safeString(v, maxLen) ==
  LET s == Trim(JsString(OrElse(v, Str(<<>>))))
  IN IF s = <<>> THEN <<>>
     ELSE IF Len(s) > maxLen THEN Trim(Slice0(s, maxLen - 1)) ELSE s

\* safeStringArray(v, maxItems, maxItemLen), a sequence of strings
RECURSIVE StringArrayLoop(_, _, _, _)
StringArrayLoop(items, out, maxItems, maxItemLen) ==
  IF items = <<>> THEN out
  ELSE LET s == safeString(items[1], maxItemLen)
           out2 == IF s # <<>> THEN Append(out, s) ELSE out
       IN IF Len(out2) >= maxItems THEN out2
          ELSE StringArrayLoop(Tail(items), out2, maxItems, maxItemLen)

safeStringArray(v, maxItems, maxItemLen) ==
  IF ~IsArray(v) THEN <<>> ELSE StringArrayLoop(v.a, <<>>, maxItems, maxItemLen)

\* safeNumber(v, min, max): null or a number
safeNumber(v, min, max) ==
  LET n == ToNumber(v)
  IN IF ~IsFinite(n) THEN Null ELSE Num(clamp(n.n, min, max))

\* .replace(/[^a-z0-9]+/g, "-")
RECURSIVE CollapseRuns(_)
CollapseRuns(s) ==
  IF s = <<>> THEN <<>>
  ELSE IF IsSlugChar(s[1]) THEN <<s[1]>> \o CollapseRuns(Tail(s))
  ELSE IF Len(s) > 1 /\ ~IsSlugChar(s[2]) THEN CollapseRuns(Tail(s))
  ELSE <<"-">> \o CollapseRuns(Tail(s))

\* .replace(/(^-|-$)/g, "")
StripHyphens(s) ==
  LET a == IF s # <<>> /\ s[1] = "-" THEN Tail(s) ELSE s
  IN IF a # <<>> /\ a[Len(a)] = "-" THEN SubSeq(a, 1, Len(a) - 1) ELSE a

SlugMaxLen == 64
PlaceWord == <<"p","l","a","c","e">>

\* slugify(s), a string
slugify(v) ==
  LET t == Slice0(StripHyphens(CollapseRuns(ToLowerCase(
               JsString(OrElse(v, Str(<<>>)))))), SlugMaxLen)
  IN IF t # <<>> THEN t ELSE PlaceWord

\* safeId(s); rnd is the text Math.random().toString(16).slice(2) yields
safeId(v, rnd) ==
  LET id == slugify(v)
  IN IF id # <<>> THEN id ELSE PlaceWord \o <<"-">> \o rnd

\* the key without lowercasing
DedupeKeyCaseSensitive(p) == p.id \o <<"|">> \o p.name

\* the key dedupePlaces builds for a place
DedupeKey(p) ==
  ToLowerCase(JsString(OrElse(Str(p.id), Str(<<>>)))) \o <<"|">>
    \o ToLowerCase(JsString(OrElse(Str(p.name), Str(<<>>))))

RECURSIVE DedupeLoop(_, _, _)
DedupeLoop(places, seen, out) ==
  IF places = <<>> THEN out
  ELSE LET key == DedupeKey(places[1])
       IN IF key \in seen THEN DedupeLoop(Tail(places), seen, out)
          ELSE DedupeLoop(Tail(places), seen \cup {key}, Append(out, places[1]))

\* dedupePlaces(places)
dedupePlaces(places) == DedupeLoop(places, {}, <<>>)

Poi == <<"p","o","i">>
Neighborhood == <<"n","e","i","g","h","b","o","r","h","o","o","d">>

\* geocodeConfidence(feature): a number in units of 1/Unit
geocodeConfidence(f) ==
  LET types == OrElse(f.place_type, Arr(<<>>))
  IN IF f.relevance.t = "number" THEN clamp(f.relevance.n, 0, Unit)
     ELSE IF f.relevance.t = "infinity"
          THEN (IF f.relevance.sign < 0 THEN 0 ELSE Unit)
     ELSE IF Str(Poi) \in Range(types.a) THEN (78 * Unit) \div 100
     ELSE IF Str(Neighborhood) \in Range(types.a) THEN (72 * Unit) \div 100
     ELSE (65 * Unit) \div 100

(* ------------------------------------------------------------------ *)
(* Inputs of the handler                                                *)
(* ------------------------------------------------------------------ *)

\* an object whose only member of interest is `places`
ObjWith(p) == [t |-> "object", places |-> p]

\* llmJson?.places
PlacesOf(v) == IF v.t = "object" /\ "places" \in DOMAIN v THEN v.places ELSE Undef

\* a candidate object of the language model's reply
Cand(id, name, category, highlights, why_go, hours, best, tags) ==
  [t |-> "candidate", id |-> id, name |-> name, category |-> category,
   highlights |-> highlights, why_go |-> why_go, time_needed_hours |-> hours,
   best_time_of_day |-> best, tags |-> tags]

\* c?.field
Field(c, f) == IF c.t = "candidate" THEN c[f] ELSE Undef

CandPlain ==
  Cand(Undef, Str(<<"a">>), Str(<<"f","o","o","d">>), Arr(<<Str(<<"x">>), Str(<<" ">>)>>),
       Str(<<"w">>), Num((15 * Unit) \div 10), Str(<<"m","o","r","n","i","n","g">>), Arr(<<Str(<<"t">>)>>))
CandUpper ==
  Cand(Str(<<"A">>), Str(<<"A">>), Undef, Undef, Undef, Str(<<"a","b","c">>),
       Str(<<"n","o","o","n">>), Null)
CandBlank == Cand(Undef, Str(<<" ">>), Undef, Undef, Undef, Undef, Undef, Undef)
CandBang == Cand(Undef, Str(<<"!">>), Undef, Undef, Undef, Null, Undef, Undef)
CandHash == Cand(Str(<<"!">>), Str(<<"#">>), Undef, Undef, Undef, Num(99 * Unit), Undef, Undef)
CandNumberName == Cand(Undef, Num(5 * Unit), Undef, Undef, Undef, Undef, Undef, Undef)

CandKinds == {CandPlain, CandUpper, CandBlank, CandBang, CandHash, CandNumberName}

RECURSIVE SeqsUpTo(_, _)
\* the sequences over S of length at most n
SeqsUpTo(S, n) ==
  IF n = 0 THEN {<<>>}
  ELSE LET shorter == SeqsUpTo(S, n - 1)
       IN shorter \cup {Append(s, x) : s \in {q \in shorter : Len(q) = n - 1}, x \in S}

\* a reply longer than the smallest max_places: a blank name second, a null
\* element third, a name without slug characters last
LongList(n) ==
  [i \in 1..n |-> IF i = 2 THEN CandBlank ELSE IF i = 3 THEN Null
                  ELSE IF i = n THEN CandBang ELSE CandPlain]

CandidateLists ==
  SeqsUpTo(CandKinds, MaxMixedLen) \cup {LongList(MinPlaces + e) : e \in 1..MaxExtra}

\* the JSON values the reply text can denote
ParsedReplies ==
  {Null, Num(0), Bool(FALSE), Str(<<>>), Num(Unit), Str(<<"a">>), Arr(<<>>),
   ObjWith(Undef), ObjWith(Null), ObjWith(Str(<<"a">>)), ObjWith(ObjWith(Undef))}
    \cup {ObjWith(Arr(l)) : l \in CandidateLists}

\* the chat-completion call's outcomes
\* the chat-completion call's outcomes: the HTTP status, whether the text of
\* choices[0].message.content is JSON, and the value it denotes
LlmReplies ==
  {[status |-> s, valid |-> FALSE, value |-> Null] : s \in {"http_error", "bad_body", "ok"}}
    \cup {[status |-> "ok", valid |-> TRUE, value |-> p] : p \in ParsedReplies}

\* safeJsonParse(extractJsonObject(content)): null when JSON.parse throws
safeJsonParse(reply) == IF reply.valid THEN reply.value ELSE Null

Feature(center, relevance, place_type, bbox) ==
  [t |-> "feature", center |-> center, relevance |-> relevance,
   place_type |-> place_type, bbox |-> bbox]

Lng == 0 - ((92 * Unit) \div 10)
Lat == (387 * Unit) \div 10
Box == Arr(<<Num(0 - 10 * Unit), Num(38 * Unit), Num(0 - 9 * Unit), Num(39 * Unit)>>)

DestFeatures == {Feature(Arr(<<Num(Lng), Num(Lat)>>), Undef, Undef, Undef),
                 Feature(Arr(<<Num(Lng), Num(Lat)>>), Undef, Undef, Box)}

CandFeatures ==
  {Feature(Arr(<<Num(Lng), Num(Lat)>>), Undef, Arr(<<Str(Poi)>>), Undef),
   Feature(Arr(<<Null, Num(Lat)>>), Num((9 * Unit) \div 10), Undef, Undef),
   Feature(Arr(<<Num(Lng)>>), Undef, Arr(<<Str(Neighborhood)>>), Undef)}

\* a geocoding call's outcomes: features is the reply body's features array
GeoReplies(features) ==
  {[status |-> "http_error", features |-> <<>>], [status |-> "bad_body", features |-> <<>>],
   [status |-> "ok", features |-> <<>>]}
    \cup {[status |-> "ok", features |-> <<f>>] : f \in features}

Trip(dq, ask) == [t |-> "trip", destination_query |-> dq, ask |-> ask]
Options(mp) == [t |-> "options", max_places |-> mp]
Body(trip, options) == [t |-> "body", trip |-> trip, options |-> options]

DestinationQueries ==
  {Undef, Null, Num(0), Str(<<>>), Str(<<" ">>), Str(<<" ", "\t">>), Str(<<"a">>),
   Num(5 * Unit)}
Asks == {Undef, Num(5 * Unit)}
MaxPlacesInputs == {Null, Num(Unit), Num(6 * Unit)}
EnvValues == {Undef, Str(<<"k">>)}

Bodies ==
  {Undef, Body(Undef, Undef)}
    \cup {Body(Trip(dq, ask), o) : dq \in DestinationQueries, ask \in Asks,
                                   o \in {Undef} \cup {Options(m) : m \in MaxPlacesInputs}}

Requests ==
  [method : {"POST", "GET"}, body : Bodies, OPENAI_API_KEY : EnvValues,
   MAPBOX_TOKEN : EnvValues]

\* what Math.random().toString(16).slice(2) can yield
RandomTexts == {<<"3","f">>, <<"c","2">>}

(* ------------------------------------------------------------------ *)
(* State                                                                *)
(* ------------------------------------------------------------------ *)

VARIABLES
  pc,                \* where the handler is: start, llm, dest, cand, done (off: no request)
  req,               \* the request and the environment it runs in
  destinationQuery,  \* const destinationQuery (line 9)
  maxPlaces,         \* const maxPlaces (line 15)
  candidates,        \* const candidates (line 42)
  destBbox,          \* const destBbox (line 60)
  idx,               \* index in candidates of the candidate being geocoded
  geocoded,          \* const geocoded (line 63)
  responses,         \* what was sent on res, in order
  calls,             \* the outbound calls issued so far, in order, with their outcome
  h                  \* the helper under test in the helper specification

vars == <<pc, req, destinationQuery, maxPlaces, candidates, destBbox, idx, geocoded,
          responses, calls, h>>

handlerVars == <<pc, req, destinationQuery, maxPlaces, candidates, destBbox, idx,
                 geocoded, responses, calls>>

NoHelper == [fn |-> "none"]

\* res.status(s).send(text)
TextResponse(s, text) == [status |-> s, kind |-> "text", text |-> text]

\* res.status(200).json(body); generated_at (the clock) is left out of the body
JsonResponse(body) == [status |-> 200, kind |-> "json", body |-> body]

\* the body sent when there are no candidates (lines 44-48)
EmptyBody(q) ==
  [places |-> <<>>, destination |-> [query |-> q], meta |-> [cache_hit |-> FALSE]]

\* the body sent after geocoding (lines 100-111)
FullBody(q, bbox, places) ==
  [places |-> places, destination |-> [query |-> q, bbox |-> bbox],
   meta |-> [geocode_provider |-> "mapbox", cache_hit |-> FALSE]]

\* an outbound call as issued: fetch(...) not yet resolved
Call(kind, at, query, bbox) ==
  [kind |-> kind, query |-> query, bbox |-> bbox, at |-> at, outcome |-> "pending",
   got |-> Undef]

\* the bbox parameter mapboxGeocode puts in the URL (lines 192-194)
BboxParam(bbox) ==
  IF Truthy(bbox) /\ IsArray(bbox) /\ Len(bbox.a) = 4 THEN bbox ELSE Undef

\* the last call resolves with reply; o is what the code makes of it
Resolve(log, o, reply) == [log EXCEPT ![Len(log)].outcome = o, ![Len(log)].got = reply]

\* CandOutcome with an empty features array treated as a failed lookup
CandOutcomeMissThrows(reply) ==
  IF reply.status # "ok" THEN reply.status
  ELSE IF reply.features = <<>> THEN "http_error"
  ELSE IF ~(IsArray(reply.features[1].center) /\ Len(reply.features[1].center.a) = 2)
  THEN "malformed"
  ELSE "pushed"

\* await fetch, resp.ok, resp.json() (lines 196-201, 170-175): the error thrown, if any
FetchOutcome(reply) == reply.status

\* what lines 69-78 make of a candidate's geocode reply: an error thrown by
\* mapboxGeocode, no first feature, a first feature without a two-element center,
\* or a place to push
CandOutcome(reply) ==
  IF FetchOutcome(reply) # "ok" THEN FetchOutcome(reply)
  ELSE IF reply.features = <<>> THEN "miss"
  ELSE IF ~(IsArray(reply.features[1].center) /\ Len(reply.features[1].center.a) = 2)
  THEN "malformed"
  ELSE "pushed"

\* req.body || {}, then trip and options by optional chaining
TripOf(r) == IF r.body.t = "body" THEN r.body.trip ELSE Undef
OptionsOf(r) == IF r.body.t = "body" THEN r.body.options ELSE Undef
TripField(r, f) == IF TripOf(r).t = "trip" THEN TripOf(r)[f] ELSE Undef
MaxPlacesInput(r) == IF OptionsOf(r).t = "options" THEN OptionsOf(r).max_places ELSE Undef

\* TrimOrThrow without the trim
TrimOrThrowNoTrim(v) ==
  LET s == OrElse(v, Str(<<>>))
  IN IF s.t = "string" THEN [s |-> s.s, threw |-> FALSE]
     ELSE [s |-> <<>>, threw |-> TRUE]

\* (v || "").trim(): a string, or a TypeError when v is truthy and no string
TrimOrThrow(v) ==
  LET s == OrElse(v, Str(<<>>))
  IN IF s.t = "string" THEN [s |-> Trim(s.s), threw |-> FALSE]
     ELSE [s |-> <<>>, threw |-> TRUE]

\* the place pushed for candidate c, whose trimmed name is name, and feature f
MakePlace(c, name, f, rnd) ==
  [id |-> safeId(OrElse(Field(c, "id"), Str(slugify(Str(name)))), rnd),
   name |-> name,
   category |-> safeCategory(Field(c, "category")),
   lat |-> f.center.a[2],
   lng |-> f.center.a[1],
   highlights |-> safeStringArray(Field(c, "highlights"), 6, 80),
   why_go |-> safeString(Field(c, "why_go"), 260),
   time_needed_hours |-> safeNumber(Field(c, "time_needed_hours"), Unit \div 2, 12 * Unit),
   best_time_of_day |-> safeEnum(Field(c, "best_time_of_day"), TimeOfDayAllowed,
                                 TimeOfDayFallback),
   tags |-> safeStringArray(Field(c, "tags"), 8, 30),
   confidence |-> geocodeConfidence(f)]

\* LoopScan over all candidates, without slice(0, maxPlaces)
RECURSIVE LoopScanNoLimit(_, _, _)
LoopScanNoLimit(cands, limit, j) ==
  IF j > Len(cands) THEN [name |-> <<>>, kind |-> "end", at |-> j]
  ELSE LET n == TrimOrThrow(Field(cands[j], "name"))
       IN IF n.threw THEN [name |-> <<>>, kind |-> "throw", at |-> j]
          ELSE IF n.s = <<>> THEN LoopScanNoLimit(cands, limit, j + 1)
          ELSE [name |-> n.s, kind |-> "call", at |-> j]

\* the for loop from index j on (lines 64-66): the next candidate to geocode, a
\* TypeError thrown on the way, or the end of candidates.slice(0, maxPlaces)
RECURSIVE LoopScan(_, _, _)
LoopScan(cands, limit, j) ==
  IF j > Min2(Len(cands), limit) THEN [name |-> <<>>, kind |-> "end", at |-> j]
  ELSE LET n == TrimOrThrow(Field(cands[j], "name"))
       IN IF n.threw THEN [name |-> <<>>, kind |-> "throw", at |-> j]
          ELSE IF n.s = <<>> THEN LoopScan(cands, limit, j + 1)
          ELSE [name |-> n.s, kind |-> "call", at |-> j]

(* ------------------------------------------------------------------ *)
(* The handler                                                          *)
(* ------------------------------------------------------------------ *)

\* a response sent and the handler returns
Respond(r) == /\ responses' = Append(responses, r)
              /\ pc' = "done"

\* a catch block that answers with the places geocoded so far
CatchPartial(message) ==
  Respond(JsonResponse(FullBody(destinationQuery, destBbox, dedupePlaces(geocoded))))

\* catch (err): res.status(500).send(err.message) (lines 112-115)
Catch(message) == Respond(TextResponse(500, message))

Init ==
  /\ pc = "start"
  /\ req \in Requests
  /\ destinationQuery = <<>>
  /\ maxPlaces = 0
  /\ candidates = <<>>
  /\ destBbox = Undef
  /\ idx = 0
  /\ geocoded = <<>>
  /\ responses = <<>>
  /\ calls = <<>>
  /\ h = NoHelper

\* lines 3-40: validation, then the chat-completion call is issued
Receive ==
  /\ pc = "start"
  /\ LET dq == TrimOrThrow(TripField(req, "destination_query"))
         ask == TrimOrThrow(TripField(req, "ask"))
         mp == clampInt(MaxPlacesInput(req), MinPlaces, MaxPlaces, DefaultPlaces)
     IN IF req.method # "POST"
        THEN /\ Respond(TextResponse(405, "Method Not Allowed"))
             /\ UNCHANGED <<destinationQuery, maxPlaces, calls>>
        ELSE IF dq.threw
        THEN /\ Catch("TypeError")
             /\ UNCHANGED <<destinationQuery, maxPlaces, calls>>
        ELSE IF dq.s = <<>>
        THEN /\ Respond(TextResponse(400, "Missing trip.destination_query"))
             /\ UNCHANGED <<destinationQuery, maxPlaces, calls>>
        ELSE /\ destinationQuery' = dq.s
             /\ maxPlaces' = mp
             /\ IF ask.threw
                THEN Catch("TypeError") /\ UNCHANGED calls
                ELSE IF ~Truthy(req.OPENAI_API_KEY)
                THEN /\ Respond(TextResponse(500, "Server missing OPENAI_API_KEY"))
                     /\ UNCHANGED calls
                ELSE IF ~Truthy(req.MAPBOX_TOKEN)
                THEN /\ Respond(TextResponse(500, "Server missing MAPBOX_TOKEN"))
                     /\ UNCHANGED calls
                ELSE /\ calls' = Append(calls, Call("llm", 0, dq.s, Undef))
                     /\ pc' = "llm"
                     /\ UNCHANGED responses
  /\ UNCHANGED <<req, candidates, destBbox, idx, geocoded, h>>

\* the loop of lines 64-95 resumed at index j with gc geocoded so far, then
\* lines 97-111 when the loop ends; log is the call log and bbox is destBbox
LoopFrom(j, gc, log, bbox) ==
  LET nx == LoopScan(candidates, maxPlaces, j)
  IN /\ geocoded' = gc
     /\ CASE nx.kind = "call" ->
               /\ calls' = Append(log, Call("cand", nx.at,
                                  nx.name \o <<",", " ">> \o destinationQuery,
                                  BboxParam(bbox)))
               /\ idx' = nx.at
               /\ pc' = "cand"
               /\ UNCHANGED responses
          [] nx.kind = "throw" ->
               /\ calls' = log
               /\ idx' = nx.at
               /\ Catch("TypeError")
          [] OTHER ->
               /\ calls' = log
               /\ idx' = nx.at
               /\ Respond(JsonResponse(FullBody(destinationQuery, bbox, dedupePlaces(gc))))

\* lines 33-58: the chat-completion call resolves (getCandidatePlacesFromLLM,
\* lines 170-181), then the destination geocode is issued
LlmReturn(reply) ==
  /\ pc = "llm"
  /\ LET parsed == safeJsonParse(reply)
         places == PlacesOf(parsed)
         cs == IF IsArray(places) THEN places.a ELSE <<>>
     IN IF FetchOutcome(reply) # "ok"
        THEN /\ calls' = Resolve(calls, FetchOutcome(reply), reply)
             /\ Catch(IF FetchOutcome(reply) = "http_error" THEN "OpenAI error"
                      ELSE "SyntaxError")
             /\ UNCHANGED candidates
        ELSE IF ~Truthy(parsed)
        THEN /\ calls' = Resolve(calls, "ok", reply)
             /\ Catch("LLM did not return valid JSON.")
             /\ UNCHANGED candidates
        ELSE /\ candidates' = cs
             /\ IF cs = <<>>
                THEN /\ calls' = Resolve(calls, "ok", reply)
                     /\ Respond(JsonResponse(EmptyBody(destinationQuery)))
                ELSE /\ calls' = Append(Resolve(calls, "ok", reply),
                                        Call("dest", 0, destinationQuery, Undef))
                     /\ pc' = "dest"
                     /\ UNCHANGED responses
  /\ UNCHANGED <<req, destinationQuery, maxPlaces, destBbox, idx, geocoded, h>>

\* lines 53-75: the destination geocode resolves (mapboxGeocode, lines 196-201),
\* then the loop starts
DestReturn(reply) ==
  /\ pc = "dest"
  /\ IF FetchOutcome(reply) # "ok"
     THEN /\ calls' = Resolve(calls, FetchOutcome(reply), reply)
          /\ Catch(IF FetchOutcome(reply) = "http_error" THEN "Mapbox geocode error"
                   ELSE "SyntaxError")
          /\ UNCHANGED <<destBbox, idx, geocoded>>
     ELSE LET bbox == IF reply.features = <<>> THEN Null
                      ELSE OrElse(reply.features[1].bbox, Null)
          IN /\ destBbox' = bbox
             /\ LoopFrom(1, <<>>, Resolve(calls, "ok", reply), bbox)
  /\ UNCHANGED <<req, destinationQuery, maxPlaces, candidates, h>>

\* lines 69-95: a candidate geocode resolves, the place is pushed or the candidate
\* dropped, and the loop goes on
CandReturn(reply, rnd) ==
  /\ pc = "cand"
  /\ LET o == CandOutcome(reply)
     IN IF o \in {"http_error", "bad_body"}
        THEN /\ calls' = Resolve(calls, o, reply)
             /\ Catch(IF o = "http_error" THEN "Mapbox geocode error" ELSE "SyntaxError")
             /\ UNCHANGED <<idx, geocoded>>
        ELSE IF o # "pushed"
        THEN LoopFrom(idx + 1, geocoded, Resolve(calls, o, reply), destBbox)
        ELSE LoopFrom(idx + 1,
                      Append(geocoded,
                             MakePlace(candidates[idx],
                                       TrimOrThrow(Field(candidates[idx], "name")).s,
                                       reply.features[1], rnd)),
                      Resolve(calls, o, reply), destBbox)
  /\ UNCHANGED <<req, destinationQuery, maxPlaces, candidates, destBbox, h>>

Next ==
  \/ Receive
  \/ \E reply \in LlmReplies : LlmReturn(reply)
  \/ \E reply \in GeoReplies(DestFeatures) : DestReturn(reply)
  \/ \E reply \in GeoReplies(CandFeatures), rnd \in RandomTexts : CandReturn(reply, rnd)

Spec == Init /\ [][Next]_vars

(* ------------------------------------------------------------------ *)
(* The helpers on their own: an input is drawn, then the helper is      *)
(* applied to it, the sanitizers a second time to their own result      *)
(* ------------------------------------------------------------------ *)

HelperChars == {"a", "B", " ", "1", ".", "-"}

HelperValues ==
  {Undef, Null, NaN, Obj, Bool(TRUE), Bool(FALSE), Inf(1), Inf(0 - 1),
   Num(0), Num(Unit), Num(5 * Unit), Num(15 * Unit), Num(25 * Unit), Num(99 * Unit),
   Num(0 - 3 * Unit), Num((127 * Unit) \div 10), Num(Unit \div 4),
   Arr(<<>>), Arr(<<Num(7 * Unit)>>), Arr(<<Obj, Obj, Obj>>),
   Str(<<"a","b","c">>), Str(<<"f","o","o","d">>), Str(<<" ">> \o <<"n","i","g","h","t">>), Str(<<"a","f","t","e","r","n","o","o","n">>)}
    \cup {Str(s) : s \in SeqsUpTo(HelperChars, MaxStrLen)}

\* the maxLen arguments: those of lines 88-92 and two short ones that the drawn
\* strings exceed
StringLimits == {1, 2, 30, 80, 260}

DedupeIds == {<<"a">>, <<"A">>, <<>>}
DedupeNames == {<<"x">>, <<"X">>, <<"y">>}
DedupeInputs == SeqsUpTo([id : DedupeIds, name : DedupeNames], MaxDedupeLen)

HelperStart(fn, arg, lim) == [fn |-> fn, arg |-> arg, lim |-> lim, outs |-> <<>>]

HelperInit ==
  /\ pc = "off"
  /\ req = [method |-> "POST", body |-> Undef, OPENAI_API_KEY |-> Undef,
            MAPBOX_TOKEN |-> Undef]
  /\ destinationQuery = <<>>
  /\ maxPlaces = 0
  /\ candidates = <<>>
  /\ destBbox = Undef
  /\ idx = 0
  /\ geocoded = <<>>
  /\ responses = <<>>
  /\ calls = <<>>
  /\ \/ \E v \in HelperValues :
          h \in {HelperStart(fn, v, 0) :
                   fn \in {"clampInt", "safeNumber", "safeEnum", "safeCategory"}}
     \/ \E v \in HelperValues, lim \in StringLimits : h = HelperStart("safeString", v, lim)
     \/ \E ps \in DedupeInputs : h = HelperStart("dedupePlaces", ps, 0)

\* the value the next application takes: the input, then the previous result
HelperIn == IF h.outs = <<>> THEN h.arg ELSE h.outs[Len(h.outs)]

CallClampInt ==
  /\ h.fn = "clampInt" /\ h.outs = <<>>
  /\ h' = [h EXCEPT !.outs = <<clampInt(h.arg, MinPlaces, MaxPlaces, DefaultPlaces)>>]
  /\ UNCHANGED handlerVars

CallDedupePlaces ==
  /\ h.fn = "dedupePlaces" /\ h.outs = <<>>
  /\ h' = [h EXCEPT !.outs = <<dedupePlaces(h.arg)>>]
  /\ UNCHANGED handlerVars

CallSafeString ==
  /\ h.fn = "safeString" /\ Len(h.outs) < 2
  /\ h' = [h EXCEPT !.outs = Append(@, Str(safeString(HelperIn, h.lim)))]
  /\ UNCHANGED handlerVars

CallSafeNumber ==
  /\ h.fn = "safeNumber" /\ Len(h.outs) < 2
  /\ h' = [h EXCEPT !.outs = Append(@, safeNumber(HelperIn, Unit \div 2, 12 * Unit))]
  /\ UNCHANGED handlerVars

CallSafeEnum ==
  /\ h.fn = "safeEnum" /\ Len(h.outs) < 2
  /\ h' = [h EXCEPT !.outs =
             Append(@, Str(safeEnum(HelperIn, TimeOfDayAllowed, TimeOfDayFallback)))]
  /\ UNCHANGED handlerVars

CallSafeCategory ==
  /\ h.fn = "safeCategory" /\ Len(h.outs) < 2
  /\ h' = [h EXCEPT !.outs = Append(@, Str(safeCategory(HelperIn)))]
  /\ UNCHANGED handlerVars

HelperNext ==
  \/ CallClampInt
  \/ CallDedupePlaces
  \/ CallSafeString
  \/ CallSafeNumber
  \/ CallSafeEnum
  \/ CallSafeCategory

HelperSpec == HelperInit /\ [][HelperNext]_vars

(* ------------------------------------------------------------------ *)
(* Properties                                                           *)
(* ------------------------------------------------------------------ *)

Done == pc = "done"
Sent200 == responses # <<>> /\ responses[1].status = 200
SentPlaces == responses[1].body.places
CallsWith(o) == {k \in DOMAIN calls : calls[k].outcome = o}
Resolved(k) == calls[k].outcome # "pending"

\* C1: every place of a 200 response has finite numbers as lat and lng.
C1_FiniteCoordinates ==
  \A r \in Range(responses) :
    r.status = 200 =>
      \A p \in Range(r.body.places) : IsFinite(p.lat) /\ IsFinite(p.lng)

\* C2: once an outbound call returned a non-success status, the request has ended
\* with exactly one response, of status 500; the failed call is the last call
\* issued, and no call is ever issued twice.
C2_UpstreamFailureIs500 ==
  /\ Len(responses) <= 1
  /\ \A j, k \in DOMAIN calls :
       j # k => <<calls[j].kind, calls[j].at>> # <<calls[k].kind, calls[k].at>>
  /\ \A k \in DOMAIN calls :
       (Resolved(k) /\ calls[k].got.status = "http_error") =>
         /\ Done
         /\ k = Len(calls)
         /\ Len(responses) = 1
         /\ responses[1].status = 500

\* C2 witness: a candidate geocode fails after an earlier candidate was pushed.
C2_Witness ==
  /\ Done
  /\ geocoded # <<>>
  /\ calls[Len(calls)].kind = "cand"
  /\ calls[Len(calls)].got.status = "http_error"
  /\ responses[1].status = 500

\* the reply text denotes a JSON value without a non-empty places sequence
NoCandidatesReply(reply) ==
  /\ reply.status = "ok"
  /\ reply.valid
  /\ ~(IsArray(PlacesOf(reply.value)) /\ PlacesOf(reply.value).a # <<>>)

\* C3: when the reply parses to a JSON value whose places member is empty, missing
\* or no sequence, the response is 200 with places = [] and neither bbox nor
\* geocode_provider, and no geocoding call is made.
C3_NoCandidatesIsEmpty200 ==
  (calls # <<>> /\ Resolved(1) /\ NoCandidatesReply(calls[1].got)) =>
     /\ Len(calls) = 1
     /\ responses = <<JsonResponse(EmptyBody(destinationQuery))>>
     /\ "bbox" \notin DOMAIN responses[1].body.destination
     /\ "geocode_provider" \notin DOMAIN responses[1].body.meta

\* the candidates the loop has to geocode: those among the first maxPlaces whose
\* name is a string with a character that is no whitespace
HasName(c) ==
  /\ c.t = "candidate"
  /\ c.name.t = "string"
  /\ \E i \in DOMAIN c.name.s : ~IsSpace(c.name.s[i])
NamedWithinLimit ==
  {j \in 1..Len(candidates) : j <= maxPlaces /\ HasName(candidates[j])}
\* a candidate among the first maxPlaces whose name is truthy and no string
BadNameWithinLimit ==
  \E j \in 1..Len(candidates) :
    /\ j <= maxPlaces
    /\ candidates[j].t = "candidate"
    /\ candidates[j].name.t # "string"
    /\ Truthy(candidates[j].name)
CandCalls == {k \in DOMAIN calls : calls[k].kind = "cand"}
MissedCalls ==
  {k \in CandCalls : Resolved(k) /\ calls[k].got.status = "ok"
                       /\ calls[k].got.features = <<>>}
FailedCalls == {k \in DOMAIN calls : Resolved(k) /\ calls[k].got.status # "ok"}

\* C4: a request in which a candidate's lookup returned zero features, and in
\* which nothing else failed, ends with a single 200 response; every named
\* candidate among the first max_places was geocoded, and the places sent come
\* only from the candidates whose lookup returned a feature.
C4_MissIsNotAnError ==
  (Done /\ MissedCalls # {} /\ FailedCalls = {} /\ ~BadNameWithinLimit) =>
     /\ Len(responses) = 1
     /\ Sent200
     /\ {calls[k].at : k \in CandCalls} = NamedWithinLimit
     /\ Len(SentPlaces) <= Cardinality(CandCalls \ MissedCalls)
     /\ \A p \in Range(SentPlaces) :
          \E k \in CandCalls \ MissedCalls :
            p.name = Trim(candidates[calls[k].at].name.s)

\* C4 witness: the first lookup missed, a later one was pushed, the response is 200.
C4_Witness ==
  /\ Done
  /\ Sent200
  /\ \E j \in MissedCalls : \E k \in CallsWith("pushed") : j < k
  /\ Len(SentPlaces) = 1

\* trip.destination_query is absent, empty or whitespace-only
BlankQuery ==
  LET v == TripField(req, "destination_query")
  IN \/ v \in {Undef, Null}
     \/ v.t = "string" /\ \A i \in DOMAIN v.s : IsSpace(v.s[i])

Is400 ==
  /\ Len(responses) = 1
  /\ responses[1] = TextResponse(400, "Missing trip.destination_query")
  /\ calls = <<>>

\* C5 as claimed: every request with an absent or blank destination_query is
\* answered 400 and makes no outbound call.
C5_BlankQueryIs400 == (Done /\ BlankQuery) => Is400

\* C5 amended: every POST request with an absent or blank destination_query is
\* answered 400 "Missing trip.destination_query" and makes no outbound call,
\* whatever its other fields and the server credentials are.
C5_BlankQueryPostIs400 == (Done /\ BlankQuery /\ req.method = "POST") => Is400

\* C5 witness: a whitespace-only query on a server without credentials.
C5_Witness ==
  /\ Done
  /\ req.method = "POST"
  /\ TripField(req, "destination_query") = Str(<<" ", "\t">>)
  /\ TripField(req, "ask") # Undef
  /\ ~Truthy(req.OPENAI_API_KEY)
  /\ Is400

\* the value a place's id is made from: the candidate's id, else its name
IdSource(c) == IF Truthy(c.id) THEN c.id ELSE c.name
NoSlugChars(s) == \A i \in DOMAIN s : ~IsSlugChar(ToLowerChar(s[i]))
PushedAt == SelectSeq(calls, LAMBDA c : c.outcome = "pushed")

\* C9: a place whose id source has no character of a-z, 0-9 gets a randomized id
\* place-<random>.
C9_EmptySlugIsRandomized ==
  \A k \in DOMAIN geocoded :
    k <= Len(PushedAt) /\ NoSlugChars(JsString(IdSource(candidates[PushedAt[k].at]))) =>
      geocoded[k].id \in {PlaceWord \o <<"-">> \o r : r \in RandomTexts}

\* C10: at most one call is in flight, and it is the last one issued; the calls
\* are the chat completion, then the destination geocode, then candidate
\* geocodes in list order, one for each named candidate among the first
\* max_places met so far and none for any other; so at most 1 + max_places
\* geocoding calls are made.
C10_SequentialCalls ==
  /\ CallsWith("pending") \subseteq {Len(calls)}
  /\ \A k \in DOMAIN calls :
       calls[k].kind = (IF k = 1 THEN "llm" ELSE IF k = 2 THEN "dest" ELSE "cand")
  /\ \A j, k \in CandCalls : j < k => calls[j].at < calls[k].at
  /\ {calls[k].at : k \in CandCalls} \subseteq NamedWithinLimit
  /\ pc = "cand" => {calls[k].at : k \in CandCalls} = {j \in NamedWithinLimit : j <= idx}
  /\ (Done /\ Sent200 /\ candidates # <<>>) =>
        {calls[k].at : k \in CandCalls} = NamedWithinLimit
  /\ calls # <<>> => Len(calls) - 1 <= 1 + maxPlaces
  /\ (pc = "llm") = (Len(calls) = 1 /\ ~Resolved(1))
  /\ (pc = "dest") = (Len(calls) = 2 /\ ~Resolved(2))
  /\ (pc = "cand") = (Len(calls) > 2 /\ ~Resolved(Len(calls)))

\* C10 witness: a reply longer than max_places with a blank name in it, geocoded
\* to the end.
C10_Witness ==
  /\ Done
  /\ Sent200
  /\ Len(candidates) > maxPlaces
  /\ \E j \in 1..maxPlaces : ~HasName(candidates[j])
  /\ Cardinality(CandCalls) >= 3

\* lowercase(id)|lowercase(name)
ClaimKey(p) == ToLowerCase(p.id) \o <<"|">> \o ToLowerCase(p.name)
\* the positions of the places that are the first with their key
FirstOfKey(ps) ==
  {i \in DOMAIN ps : \A j \in 1..(i - 1) : ClaimKey(ps[j]) # ClaimKey(ps[i])}
\* the k-th smallest member of a set of positions
Nth(S, k) == CHOOSE i \in S : Cardinality({j \in S : j <= i}) = k

\* C6: dedupePlaces returns exactly the places that are the first of their key,
\* in their order of arrival: no two share a key and every key is kept.
C6_DedupeKeepsFirst ==
  (h.fn = "dedupePlaces" /\ h.outs # <<>>) =>
     LET in == h.arg
         out == h.outs[1]
     IN /\ Len(out) = Cardinality(FirstOfKey(in))
        /\ \A k \in DOMAIN out : out[k] = in[Nth(FirstOfKey(in), k)]
        /\ \A j, k \in DOMAIN out : j # k => ClaimKey(out[j]) # ClaimKey(out[k])
        /\ {ClaimKey(in[i]) : i \in DOMAIN in} = {ClaimKey(out[k]) : k \in DOMAIN out}

\* C6 witness: a later place with the key of an earlier one, in another case, is
\* dropped and a place after it kept.
C6_Witness ==
  /\ h.fn = "dedupePlaces" /\ h.outs # <<>>
  /\ Len(h.arg) = 3 /\ Len(h.outs[1]) = 2
  /\ h.arg[2] # h.arg[1] /\ ClaimKey(h.arg[2]) = ClaimKey(h.arg[1])
  /\ h.outs[1] = <<h.arg[1], h.arg[3]>>

\* the text of v begins, after whitespace, with an optional sign and a digit
StartsWithInteger(v) ==
  LET s == SkipSpace(JsString(v))
  IN \/ s # <<>> /\ IsDigit(s[1])
     \/ Len(s) > 1 /\ s[1] \in {"+", "-"} /\ IsDigit(s[2])
WholeNumber(v) == v.t = "number" /\ v.n % Unit = 0

\* C7: the effective max_places is an integer in [5,25]; a whole number n gives
\* min(25, max(5, n)), a value whose text does not begin with an integer gives 15,
\* and 1, 5, 15, 25, 99, "abc", null, absent give 5, 5, 15, 25, 25, 15, 15, 15.
C7_MaxPlacesClamped ==
  (h.fn = "clampInt" /\ h.outs # <<>>) =>
     LET v == h.arg
         out == h.outs[1]
     IN /\ out \in 5..25
        /\ WholeNumber(v) =>
             out = (IF v.n \div Unit < 5 THEN 5
                    ELSE IF v.n \div Unit > 25 THEN 25 ELSE v.n \div Unit)
        /\ ~StartsWithInteger(v) => out = 15
        /\ v = Num(Unit) => out = 5
        /\ v = Num(5 * Unit) => out = 5
        /\ v = Num(15 * Unit) => out = 15
        /\ v = Num(25 * Unit) => out = 25
        /\ v = Num(99 * Unit) => out = 25
        /\ v \in {Str(<<"a","b","c">>), Null, Undef} => out = 15
        /\ v = Str(<<" ", "1", "1">>) => out = 11

\* C7 witness: 99 was clamped to 25.
C7_Witness == h.fn = "clampInt" /\ h.arg = Num(99 * Unit) /\ h.outs = <<25>>

\* C8: each sanitizer applied to its own result returns that result.
C8_SanitizersIdempotent ==
  (h.fn \in {"safeString", "safeNumber", "safeEnum", "safeCategory"} /\ Len(h.outs) = 2) =>
     h.outs[2] = h.outs[1]

====
